---- MODULE Spec2Model ----
(***************************************************************************)
(* Model of the Polyblocks CLOB proxy (src/src/server.js, and the buffered *)
(* revision src/unnamed/part_000): the /health route and the catch-all     *)
(* proxy handler, run concurrently for a few inbound requests against an   *)
(* upstream that may answer, fail, break the body stream or stay silent.   *)
(*                                                                         *)
(* A request is modelled from the moment the HTTP layer hands it to a      *)
(* route: Node has lower-cased the header names and Fastify has parsed the *)
(* body with the content-type parser the file registers.                   *)
(***************************************************************************)
EXTENDS Integers, Sequences, FiniteSets, TLC

VARIABLES
    impl,         \* which revision of the handler runs
    API_KEY,      \* the configured secret, "" when none
    CLOB_TARGET,  \* the upstream base URL
    req,          \* req[r]: the inbound request r as it arrived on the wire
    script,       \* script[r]: the response the upstream has for r's call
    pc,           \* pc[r]: where r's handler is
    upstream,     \* upstream[r]: how far the upstream exchange of r got
    outbound,     \* outbound[r]: the fetch calls issued for r, in order
    reply         \* reply[r]: the replies sent to the caller of r, in order

vars == <<impl, API_KEY, CLOB_TARGET, req, script, pc, upstream, outbound, reply>>

config == <<impl, API_KEY, CLOB_TARGET>>

\* Number of inbound requests handled concurrently.
NumRequests == 2

Ids == 1..NumRequests

\* The two revisions of the handler in the repository.
Impls == {"server", "part_000"}

----------------------------------------------------------------------------
(* JavaScript values *)

\* JS `undefined` for a header lookup or an absent string.
Undefined == "<undefined>"

EmptyHeaders == [k \in {} |-> ""]

\* A JS value: t is the typeof tag, one payload field per type.
JSUndefined == [t |-> "undefined", s |-> "", n |-> 0, b |-> FALSE]

JSNull == [t |-> "null", s |-> "", n |-> 0, b |-> FALSE]

JSString(x) == [t |-> "string", s |-> x, n |-> 0, b |-> FALSE]

JSNumber(x) == [t |-> "number", s |-> "", n |-> x, b |-> FALSE]

JSBoolean(x) == [t |-> "boolean", s |-> "", n |-> 0, b |-> x]

\* The object {"a": x}.
JSObject(x) == [t |-> "object", s |-> "", n |-> x, b |-> FALSE]

\* JS truthiness, as used by `&& req.body` and `API_KEY &&`.
Truthy(v) ==
    CASE v.t = "undefined" -> FALSE
      [] v.t = "null" -> FALSE
      [] v.t = "string" -> v.s # ""
      [] v.t = "number" -> v.n # 0
      [] v.t = "boolean" -> v.b
      [] OTHER -> TRUE

NumText(x) == IF x = 0 THEN "0" ELSE "1"

\* JSON.stringify: the JSON text of a value; undefined stays undefined.
JSONStringify(v) ==
    CASE v.t = "undefined" -> Undefined
      [] v.t = "null" -> "null"
      [] v.t = "string" -> "\"" \o v.s \o "\""
      [] v.t = "number" -> NumText(v.n)
      [] v.t = "boolean" -> (IF v.b THEN "true" ELSE "false")
      [] OTHER -> "{\"a\":" \o NumText(v.n) \o "}"

\* The JSON texts a caller sends in the model.
JSONTexts == {"0", "1", "false", "true", "null", "\"\"", "\"abc\"", "{\"a\":1}"}

\* JSON.parse on those texts; anything else is not JSON.
JSONParse(text) ==
    CASE text = "0" -> JSNumber(0)
      [] text = "1" -> JSNumber(1)
      [] text = "false" -> JSBoolean(FALSE)
      [] text = "true" -> JSBoolean(TRUE)
      [] text = "null" -> JSNull
      [] text = "\"\"" -> JSString("")
      [] text = "\"abc\"" -> JSString("abc")
      [] text = "{\"a\":1}" -> JSObject(1)
      [] OTHER -> JSUndefined

----------------------------------------------------------------------------
(* Headers *)

\* Header names as written on the wire, with their lower-case form.
CasePairs ==
    { <<"Host", "host">>, <<"HOST", "host">>,
      <<"X-Proxy-Key", "x-proxy-key">>, <<"X-PROXY-KEY", "x-proxy-key">>,
      <<"Connection", "connection">>, <<"Keep-Alive", "keep-alive">>,
      <<"Transfer-Encoding", "transfer-encoding">>,
      <<"Content-Length", "content-length">>, <<"CONTENT-LENGTH", "content-length">>,
      <<"Content-Type", "content-type">>, <<"X-Trace-Id", "x-trace-id">>,
      <<"Authorization", "authorization">> }

\* String.prototype.toLowerCase on a header name.
toLowerCase(name) ==
    IF \E p \in CasePairs : p[1] = name
    THEN (CHOOSE p \in CasePairs : p[1] = name)[2]
    ELSE name

\* h[k] in JS: undefined when the key is absent.
Get(h, k) == IF k \in DOMAIN h THEN h[k] ELSE Undefined

\* A header object built from a set of <<name, value>> pairs with distinct names.
FromPairs(ps) == [k \in {p[1] : p \in ps} |-> (CHOOSE p \in ps : p[1] = k)[2]]

\* req.headers: Node's IncomingMessage keys every header by its lower-cased name.
NodeHeaders(wire) ==
    [k \in {toLowerCase(n) : n \in DOMAIN wire} |->
        wire[CHOOSE n \in DOMAIN wire : toLowerCase(n) = k]]

----------------------------------------------------------------------------
(* Configuration and inputs *)

\* process.env.CLOB_TARGET values (the first one is the default).
Targets == {"https://clob.polymarket.com", "http://localhost:8080"}

\* process.env.API_KEY values; "" is the default (no secret configured).
Secrets == {"", "k1"}

\* new URL(u).host for the configured targets.
URLHost(u) ==
    CASE u = "https://clob.polymarket.com" -> "clob.polymarket.com"
      [] u = "http://localhost:8080" -> "localhost:8080"
      [] OTHER -> Undefined

\* The Host value the caller sends.
CallerHost == "proxy.eu.example"

Methods == {"GET", "HEAD", "POST", "DELETE"}

ReadMethod(m) == m = "GET" \/ m = "HEAD"

\* No body on the wire.
NoPayload == Undefined

\* The content type the caller declared, as Fastify reads it.
ContentType(rq) == Get(NodeHeaders(rq.wire), "content-type")

\* req.body: GET and HEAD bodies are not parsed; application/json goes through
\* JSON.parse; text/plain and (server.js only, through the "*" parser that
\* concatenates the chunks into a string) every other type arrive as a string.
FastifyBody(rq) ==
    IF ReadMethod(rq.method) \/ rq.payload = NoPayload THEN JSUndefined
    ELSE IF ContentType(rq) = "application/json" THEN JSONParse(rq.payload)
    ELSE JSString(rq.payload)

\* The requests the HTTP layer hands to a route of revision i: the body parsed.
Delivered(i, rq) ==
    \/ ReadMethod(rq.method)
    \/ rq.payload = NoPayload
    \/ ContentType(rq) = "application/json" /\ rq.payload \in JSONTexts
    \/ ContentType(rq) = "text/plain"
    \/ ContentType(rq) = Undefined /\ i = "server"

----------------------------------------------------------------------------
(* The catch-all handler's computations *)

\* The gatekeeper with the test of a present header only: a request without
\* the header passes.
UnauthorizedIfPresent(key, rq) ==
    /\ key # ""
    /\ rq.method # "GET"
    /\ rq.method # "HEAD"
    /\ "x-proxy-key" \in DOMAIN NodeHeaders(rq.wire)
    /\ NodeHeaders(rq.wire)["x-proxy-key"] # key

\* The gatekeeper without the method tests: reads need the key too.
UnauthorizedAnyMethod(key, rq) ==
    /\ key # ""
    /\ Get(NodeHeaders(rq.wire), "x-proxy-key") # key

\* The gatekeeper test of the handler's first statement.
Unauthorized(key, rq) ==
    /\ key # ""
    /\ rq.method # "GET"
    /\ rq.method # "HEAD"
    /\ Get(NodeHeaders(rq.wire), "x-proxy-key") # key

\* The request loop without the x-proxy-key test.
SkippedRequestHeadersKeepKey(i) ==
    {"host", "connection", "keep-alive", "transfer-encoding", "content-length"}

\* The header names the request loop skips.
SkippedRequestHeaders(i) ==
    IF i = "server"
    THEN {"host", "x-proxy-key", "connection", "keep-alive", "transfer-encoding",
          "content-length"}
    ELSE {"host", "x-proxy-key", "connection", "keep-alive", "transfer-encoding"}

\* forwardHeaders after the loop and the host assignment.
ForwardHeaders(i, headers, target) ==
    LET kept == {k \in DOMAIN headers : toLowerCase(k) \notin SkippedRequestHeaders(i)}
    IN [k \in kept \cup {"host"} |-> IF k = "host" THEN URLHost(target) ELSE headers[k]]

\* Whether server.js takes the `if (... && req.body)` branch.
SendsBody(method, body) == method # "GET" /\ method # "HEAD" /\ Truthy(body)

\* The body option passed to fetch; Undefined when none is passed.
RequestBody(i, method, body) ==
    IF i = "server"
    THEN IF SendsBody(method, body)
         THEN (IF body.t = "string" THEN body.s ELSE JSONStringify(body))
         ELSE Undefined
    ELSE IF method # "GET" /\ method # "HEAD" THEN JSONStringify(body) ELSE Undefined

\* The content type assigned without the `||`.
ContentTypeAlwaysJson(fh) == "application/json"

\* forwardHeaders["content-type"] || "application/json"
ContentTypeOrDefault(fh) ==
    IF Get(fh, "content-type") \in {Undefined, ""}
    THEN "application/json"
    ELSE fh["content-type"]

\* The headers option passed to fetch.
OutboundHeaders(i, method, body, fh) ==
    IF i = "server" /\ SendsBody(method, body)
    THEN [k \in DOMAIN fh \cup {"content-type"} |->
            IF k = "content-type" THEN ContentTypeOrDefault(fh) ELSE fh[k]]
    ELSE fh

\* The fetch call of the handler for request rq.
OutboundCall(i, target, rq) ==
    LET body == FastifyBody(rq)
        fh == ForwardHeaders(i, NodeHeaders(rq.wire), target)
    IN [ url |-> target \o rq.url,
         method |-> rq.method,
         headers |-> OutboundHeaders(i, rq.method, body, fh),
         body |-> RequestBody(i, rq.method, body),
         redirect |-> "follow" ]

\* The response header names the relay loop skips.
SkippedResponseHeader(i, k) ==
    IF i = "server"
    THEN toLowerCase(k) \in {"transfer-encoding", "connection", "content-encoding"}
    ELSE k \in {"transfer-encoding", "connection"}

\* responseHeaders after the forEach.
ResponseHeaders(i, uh) ==
    [k \in {x \in DOMAIN uh : ~SkippedResponseHeader(i, x)} |-> uh[k]]

----------------------------------------------------------------------------
(* Replies to the caller *)

\* A reply: status, headers set by the handler, and the body. A JSON body has
\* its fields (Undefined for the ones it lacks), a relayed body its text;
\* `complete` is FALSE when the connection was destroyed before the body ended.
MkReply(status, headers, json, text, complete) ==
    [ status |-> status, headers |-> headers, live |-> json[1], region |-> json[2],
      target |-> json[3], error |-> json[4], detail |-> json[5],
      text |-> text, complete |-> complete ]

NoJson == <<Undefined, Undefined, Undefined, Undefined, Undefined>>

\* The health body with the default target written in.
HealthReplyDefaultTarget(target) ==
    MkReply(200, EmptyHeaders,
            <<"ok", "eu", "https://clob.polymarket.com", Undefined, Undefined>>,
            Undefined, TRUE)

\* { status: "ok", region: "eu", target: CLOB_TARGET }
HealthReply(target) ==
    MkReply(200, EmptyHeaders, <<"ok", "eu", target, Undefined, Undefined>>,
            Undefined, TRUE)

\* reply.status(401).send({ error }); the source's message has an em dash
\* where this string has a hyphen.
UnauthorizedReply ==
    MkReply(401, EmptyHeaders,
            <<Undefined, Undefined, Undefined, "Unauthorized - invalid X-Proxy-Key",
              Undefined>>,
            Undefined, TRUE)

\* reply.status(502).send({ error: "Proxy error", detail: String(err) })
ProxyErrorReply(err) ==
    MkReply(502, EmptyHeaders, <<Undefined, Undefined, Undefined, "Proxy error", err>>,
            Undefined, TRUE)

\* reply.status(response.status).headers(responseHeaders) and the body sent.
RelayReply(i, up, text, complete) ==
    MkReply(up.status, ResponseHeaders(i, up.headers), NoJson, text, complete)

\* Fastify's own error reply when a stream payload errors before any byte left.
FrameworkErrorReply(up) ==
    MkReply(IF up.status < 400 THEN 500 ELSE up.status, EmptyHeaders,
            <<Undefined, Undefined, Undefined, "Internal Server Error", Undefined>>,
            Undefined, TRUE)

\* String(err) for the failures of the model.
Errors == {"TypeError: fetch failed", "TypeError: terminated"}

----------------------------------------------------------------------------
(* Routes *)

\* app.get("/health"): the health route. Fastify versions that expose HEAD
\* routes answer HEAD /health here too; the others leave it to the catch-all.
Health(r) ==
    /\ pc[r] = "received"
    /\ req[r].url = "/health"
    /\ ReadMethod(req[r].method)
    /\ reply' = [reply EXCEPT ![r] = Append(@, HealthReply(CLOB_TARGET))]
    /\ pc' = [pc EXCEPT ![r] = "done"]
    /\ UNCHANGED <<config, req, script, upstream, outbound>>

\* app.all("/*") up to the await: the gatekeeper, the header and body
\* construction and the fetch call.
Handle(r) ==
    /\ pc[r] = "received"
    /\ ~(req[r].url = "/health" /\ req[r].method = "GET")
    /\ IF Unauthorized(API_KEY, req[r])
       THEN /\ reply' = [reply EXCEPT ![r] = Append(@, UnauthorizedReply)]
            /\ pc' = [pc EXCEPT ![r] = "done"]
            /\ UNCHANGED <<upstream, outbound>>
       ELSE /\ outbound' = [outbound EXCEPT ![r] =
                               Append(@, OutboundCall(impl, CLOB_TARGET, req[r]))]
            /\ upstream' = [upstream EXCEPT ![r] = "called"]
            /\ pc' = [pc EXCEPT ![r] = "fetch"]
            /\ UNCHANGED reply
    /\ UNCHANGED <<config, req, script>>

\* fetch resolves with the upstream's status and headers. server.js sets status
\* and headers on the reply and sends the body stream, or "" when there is no
\* body; part_000 goes on to await response.text().
FetchResolve(r) ==
    /\ pc[r] = "fetch"
    /\ upstream' = [upstream EXCEPT ![r] = IF script[r].body = Undefined
                                           THEN "complete" ELSE "answered"]
    /\ IF impl = "server"
       THEN IF script[r].body = Undefined
            THEN /\ reply' = [reply EXCEPT ![r] =
                                 Append(@, RelayReply(impl, script[r], "", TRUE))]
                 /\ pc' = [pc EXCEPT ![r] = "done"]
            ELSE /\ pc' = [pc EXCEPT ![r] = "stream"]
                 /\ UNCHANGED reply
       ELSE /\ pc' = [pc EXCEPT ![r] = "text"]
            /\ UNCHANGED reply
    /\ UNCHANGED <<config, req, script, outbound>>

\* The catch block calling fetch again instead of replying.
FetchRejectRetry(r) ==
    /\ pc[r] = "fetch"
    /\ outbound' = [outbound EXCEPT ![r] =
                       Append(@, OutboundCall(impl, CLOB_TARGET, req[r]))]
    /\ UNCHANGED <<config, req, script, pc, upstream, reply>>

\* fetch rejects (DNS, refused connection, protocol error): the catch block.
FetchReject(r) ==
    /\ pc[r] = "fetch"
    /\ \E err \in Errors :
          reply' = [reply EXCEPT ![r] = Append(@, ProxyErrorReply(err))]
    /\ upstream' = [upstream EXCEPT ![r] = "failed"]
    /\ pc' = [pc EXCEPT ![r] = "done"]
    /\ UNCHANGED <<config, req, script, outbound>>

\* server.js: a chunk of the upstream body is piped to the caller; the status
\* and headers leave with the first one.
StreamData(r) ==
    /\ pc[r] = "stream"
    /\ upstream[r] = "answered"
    /\ upstream' = [upstream EXCEPT ![r] = "partial"]
    /\ UNCHANGED <<config, req, script, pc, outbound, reply>>

\* server.js: the upstream body ends and the reply is complete.
StreamEnd(r) ==
    /\ pc[r] = "stream"
    /\ reply' = [reply EXCEPT ![r] =
                    Append(@, RelayReply(impl, script[r], script[r].body, TRUE))]
    /\ upstream' = [upstream EXCEPT ![r] = "complete"]
    /\ pc' = [pc EXCEPT ![r] = "done"]
    /\ UNCHANGED <<config, req, script, outbound>>

\* server.js: the upstream body stream errors after `return reply.send(nodeStream)`.
\* The handler has returned, so its catch block does not run: Fastify replies
\* with its own error when nothing was sent yet, and destroys the connection
\* when the status and headers already left.
StreamError(r) ==
    /\ pc[r] = "stream"
    /\ reply' = [reply EXCEPT ![r] =
                    Append(@, IF upstream[r] = "partial"
                              THEN RelayReply(impl, script[r], script[r].body, FALSE)
                              ELSE FrameworkErrorReply(script[r]))]
    /\ upstream' = [upstream EXCEPT ![r] = "failed"]
    /\ pc' = [pc EXCEPT ![r] = "done"]
    /\ UNCHANGED <<config, req, script, outbound>>

\* part_000: response.text() resolves with the whole body, which is sent.
TextResolve(r) ==
    /\ pc[r] = "text"
    /\ reply' = [reply EXCEPT ![r] =
                    Append(@, RelayReply(impl, script[r],
                                         IF script[r].body = Undefined THEN ""
                                         ELSE script[r].body, TRUE))]
    /\ upstream' = [upstream EXCEPT ![r] = "complete"]
    /\ pc' = [pc EXCEPT ![r] = "done"]
    /\ UNCHANGED <<config, req, script, outbound>>

\* part_000: response.text() rejects inside the try: the catch block.
TextReject(r) ==
    /\ pc[r] = "text"
    /\ script[r].body # Undefined
    /\ \E err \in Errors :
          reply' = [reply EXCEPT ![r] = Append(@, ProxyErrorReply(err))]
    /\ upstream' = [upstream EXCEPT ![r] = "failed"]
    /\ pc' = [pc EXCEPT ![r] = "done"]
    /\ UNCHANGED <<config, req, script, outbound>>

Next ==
    \E r \in DOMAIN req :
        \/ Health(r)
        \/ Handle(r)
        \/ FetchResolve(r)
        \/ FetchReject(r)
        \/ StreamData(r)
        \/ StreamEnd(r)
        \/ StreamError(r)
        \/ TextResolve(r)
        \/ TextReject(r)

----------------------------------------------------------------------------
(* Inputs and specifications *)

\* A header on the wire, or none.
Absent == <<>>

MkWire(c) == FromPairs({c.host, c.key, c.hop, c.ka, c.te, c.cl, c.ct, c.trace, c.auth} \ {Absent})

\* The upstream's response headers, as fetch's Headers lists them.
UpstreamHeaders ==
    FromPairs({ <<"connection", "keep-alive">>, <<"keep-alive", "timeout=5">>,
                <<"transfer-encoding", "chunked">>, <<"content-encoding", "gzip">>,
                <<"content-type", "application/json">>, <<"x-request-id", "u1">> })

Scripts == [status : {200, 404}, headers : {UpstreamHeaders}, body : {Undefined, "[]"}]

\* The requests of the concurrent specification: a health check, a read, a
\* write with the right key and a write with a wrong one.
Wire(key) ==
    MkWire([ host |-> <<"Host", CallerHost>>, key |-> key, hop |-> Absent,
             ka |-> Absent, te |-> Absent, cl |-> Absent,
             ct |-> <<"Content-Type", "application/json">>,
             trace |-> Absent, auth |-> Absent ])

Requests ==
    { [method |-> "GET", url |-> "/health", wire |-> Wire(Absent), payload |-> NoPayload],
      [method |-> "GET", url |-> "/book", wire |-> Wire(Absent), payload |-> NoPayload],
      [method |-> "POST", url |-> "/order", wire |-> Wire(<<"X-Proxy-Key", "k1">>),
       payload |-> "{\"a\":1}"],
      [method |-> "POST", url |-> "/order", wire |-> Wire(<<"X-Proxy-Key", "k2">>),
       payload |-> "{\"a\":1}"] }

\* The requests of the single-request specification. The first family has
\* every header the handler tests, in two spellings; the second has every
\* method, both routes and every kind of body.
HeaderWires ==
    { MkWire(c) : c \in
        [ host : {<<"Host", CallerHost>>, <<"HOST", CallerHost>>},
          key : {Absent, <<"X-Proxy-Key", "k1">>, <<"X-PROXY-KEY", "k2">>},
          hop : {Absent, <<"Connection", "keep-alive">>},
          ka : {Absent, <<"Keep-Alive", "timeout=5">>},
          te : {Absent, <<"Transfer-Encoding", "chunked">>},
          cl : {Absent, <<"Content-Length", "7">>, <<"CONTENT-LENGTH", "7">>},
          ct : {Absent, <<"Content-Type", "application/json">>},
          trace : {Absent, <<"X-Trace-Id", "abc">>},
          auth : {Absent, <<"Authorization", "Bearer t">>} ] }

BodyWires ==
    { MkWire(c) : c \in
        [ host : {<<"Host", CallerHost>>},
          key : {Absent, <<"X-Proxy-Key", "k1">>, <<"X-Proxy-Key", "k2">>},
          hop : {Absent}, ka : {Absent}, te : {Absent}, cl : {Absent},
          ct : {Absent, <<"Content-Type", "application/json">>,
                <<"Content-Type", "text/plain">>},
          trace : {Absent}, auth : {Absent} ] }

Payloads == {NoPayload, "", "abc", "0", "false", "null", "\"\"", "\"abc\"", "{\"a\":1}"}

FwdRequests ==
    [method : {"GET", "POST"}, url : {"/book"}, wire : HeaderWires,
     payload : {NoPayload, "{\"a\":1}"}]
    \cup
    [method : Methods, url : {"/health", "/order"}, wire : BodyWires, payload : Payloads]

InitWith(ids, requests, scripts) ==
    /\ impl \in Impls
    /\ API_KEY \in Secrets
    /\ CLOB_TARGET \in Targets
    /\ req \in [ids -> requests]
    /\ \A r \in ids : Delivered(impl, req[r])
    /\ script \in [ids -> scripts]
    /\ pc = [r \in ids |-> "received"]
    /\ upstream = [r \in ids |-> "idle"]
    /\ outbound = [r \in ids |-> <<>>]
    /\ reply = [r \in ids |-> <<>>]

\* NumRequests concurrent requests.
Init == InitWith(Ids, Requests, {s \in Scripts : s.status = 200 /\ s.body # Undefined})

Spec == Init /\ [][Next]_vars

\* One request drawn from the full input set.
InitFwd == InitWith({1}, FwdRequests, {s \in Scripts : s.status = 200})

SpecFwd == InitFwd /\ [][Next]_vars

\* The event loop runs every handler that is ready; nothing makes the
\* upstream answer, fail or finish a body, and the handler arms no timer.
Fairness == \A r \in Ids : WF_vars(Health(r)) /\ WF_vars(Handle(r))

FairSpec == Init /\ [][Next]_vars /\ Fairness

TypeOK ==
    /\ impl \in Impls
    /\ \A r \in DOMAIN req :
          /\ pc[r] \in {"received", "fetch", "stream", "text", "done"}
          /\ upstream[r] \in {"idle", "called", "answered", "partial", "complete", "failed"}

----------------------------------------------------------------------------
(* Properties *)

Requested == DOMAIN req

\* The value the caller gave header `lname`, whatever the spelling of its name.
Sent(r, lname) ==
    LET w == req[r].wire
    IN IF \E n \in DOMAIN w : toLowerCase(n) = lname
       THEN w[CHOOSE n \in DOMAIN w : toLowerCase(n) = lname]
       ELSE Undefined

IsWrite(r) == req[r].method \notin {"GET", "HEAD"}

Handled(r) == pc[r] # "received"

Is401(rep) == rep.status = 401 /\ rep.error = "Unauthorized - invalid X-Proxy-Key"

Is502(rep) ==
    /\ rep.status = 502
    /\ rep.error = "Proxy error"
    /\ rep.detail \notin {Undefined, ""}
    /\ rep.text = Undefined
    /\ rep.complete

\* A reply that relays the upstream's response.
IsRelay(rep) == rep.text # Undefined

\* C1: with a secret configured, a handled write request has an outbound call
\* exactly when its X-Proxy-Key value equals the secret; otherwise its only
\* reply is the 401 with the documented body and it has no outbound call.
C1_WriteForwardedIffKeyMatches ==
    \A r \in Requested :
        (API_KEY # "" /\ IsWrite(r) /\ Handled(r)) =>
            /\ (Len(outbound[r]) > 0) <=> (Sent(r, "x-proxy-key") = API_KEY)
            /\ (Sent(r, "x-proxy-key") # API_KEY) =>
                  /\ reply[r] = <<UnauthorizedReply>>
                  /\ Is401(reply[r][1])
                  /\ outbound[r] = <<>>
                  /\ upstream[r] = "idle"

\* A write without the header was rejected under a configured secret.
C1_Witness ==
    \E r \in Requested :
        /\ API_KEY # "" /\ IsWrite(r) /\ req[r].url # "/health"
        /\ Sent(r, "x-proxy-key") = Undefined
        /\ pc[r] = "done"
        /\ reply[r] = <<UnauthorizedReply>>

\* C2: a GET or HEAD request, and any request when no secret is configured,
\* never gets the 401, and once the catch-all handled it, it has been forwarded.
C2_ReadsAndNoSecretNeverRejected ==
    \A r \in Requested :
        (~IsWrite(r) \/ API_KEY = "") =>
            /\ \A i \in 1..Len(reply[r]) : reply[r][i].status # 401
            /\ (Handled(r) /\ (req[r].url # "/health" \/ IsWrite(r))) =>
                  Len(outbound[r]) = 1

\* A GET with a wrong key was forwarded under a configured secret.
C2_Witness ==
    \E r \in Requested :
        /\ API_KEY # "" /\ req[r].method = "GET" /\ req[r].url # "/health"
        /\ Sent(r, "x-proxy-key") \notin {Undefined, API_KEY}
        /\ Len(outbound[r]) = 1

\* The request passed the gatekeeper of the catch-all.
Passed(r) ==
    /\ Handled(r)
    /\ reply[r] # <<UnauthorizedReply>>
    /\ reply[r] # <<HealthReply(CLOB_TARGET)>>

\* C3: whatever the upstream did, a request that passed the gatekeeper has
\* exactly one outbound call, for its own method and URL, every request has at
\* most one reply, and no request has a call or reply of another one.
C3_OneCallOneReply ==
    \A r \in Requested :
        /\ Len(outbound[r]) <= 1
        /\ Len(reply[r]) <= 1
        /\ Passed(r) => Len(outbound[r]) = 1
        /\ ~Passed(r) => outbound[r] = <<>>
        /\ \A i \in 1..Len(outbound[r]) :
              /\ outbound[r][i].method = req[r].method
              /\ outbound[r][i].url = CLOB_TARGET \o req[r].url
        /\ (pc[r] = "done") <=> (Len(reply[r]) = 1)

\* Two concurrent requests are done, one after a failure and one after a
\* complete relay, with one call each.
C3_Witness ==
    \E r1, r2 \in Requested :
        /\ r1 # r2
        /\ pc[r1] = "done" /\ upstream[r1] = "failed" /\ Len(outbound[r1]) = 1
        /\ pc[r2] = "done" /\ upstream[r2] = "complete" /\ Len(outbound[r2]) = 1

\* C4: a request whose upstream exchange failed, at any stage, is answered
\* with the 502 "Proxy error" reply and nothing else.
C4_FailureIs502 ==
    \A r \in Requested :
        (upstream[r] = "failed" /\ pc[r] = "done") =>
            /\ Len(reply[r]) = 1
            /\ Is502(reply[r][1])

\* C5: every request that was forwarded is eventually answered.
C5_EventuallyAnswered ==
    \A r \in Ids : (upstream[r] = "called") ~> (pc[r] = "done")

Stripped ==
    {"host", "connection", "keep-alive", "transfer-encoding", "content-length",
     "x-proxy-key"}

SentNames(r) == {toLowerCase(n) : n \in DOMAIN req[r].wire}

HopByHop == {"host", "connection", "keep-alive", "transfer-encoding"}

\* C7: the headers of a relayed response are the upstream's headers without
\* Host, Connection, Keep-Alive, Transfer-Encoding and Content-Encoding, each
\* with the upstream's value.
C7_ResponseHeaders ==
    \A r \in Requested :
        \A i \in 1..Len(reply[r]) :
            IsRelay(reply[r][i]) =>
                LET h == reply[r][i].headers
                    up == script[r].headers
                    kept == {k \in DOMAIN up :
                                toLowerCase(k) \notin HopByHop \cup {"content-encoding"}}
                IN /\ DOMAIN h = kept
                   /\ \A k \in kept : h[k] = up[k]

\* C8: a GET or HEAD call has no body; the call of any other method carries
\* the caller's body: the same string when it arrived as a raw string, and a
\* JSON text that decodes to the caller's value when it arrived as JSON.
C8_BodyForwarded ==
    \A r \in Requested :
        \A i \in 1..Len(outbound[r]) :
            LET o == outbound[r][i]
                p == req[r].payload
            IN IF ~IsWrite(r) THEN o.body = Undefined
               ELSE IF p = NoPayload THEN o.body = Undefined
               ELSE IF Sent(r, "content-type") = "application/json"
                    THEN o.body # Undefined /\ JSONParse(o.body) = JSONParse(p)
               ELSE IF p = "" THEN o.body \in {Undefined, ""}
               ELSE o.body = p

\* C9 (server.js): the call of a write request that carries a body has the
\* caller's Content-Type, or application/json when the caller sent none; a
\* call without a body has the caller's Content-Type or none.
C9_ContentTypeDefault ==
    \A r \in Requested :
        \A i \in 1..Len(outbound[r]) :
            impl = "server" =>
                LET o == outbound[r][i]
                    ct == Get(o.headers, "content-type")
                IN /\ (IsWrite(r) /\ req[r].payload \notin {NoPayload, ""}) =>
                         ct = IF Sent(r, "content-type") = Undefined
                              THEN "application/json"
                              ELSE Sent(r, "content-type")
                   /\ o.body # Undefined =>
                         ct = IF Sent(r, "content-type") = Undefined
                              THEN "application/json"
                              ELSE Sent(r, "content-type")
                   /\ o.body = Undefined => ct = Sent(r, "content-type")

\* A call was issued for a write with a body and no Content-Type, and it
\* carries the body and the default.
C9_Witness ==
    \E r \in Requested :
        /\ impl = "server" /\ IsWrite(r)
        /\ Sent(r, "content-type") = Undefined
        /\ req[r].payload = "{\"a\":1}"
        /\ Len(outbound[r]) = 1
        /\ outbound[r][1].body = "{\"a\":1}"
        /\ outbound[r][1].headers["content-type"] = "application/json"

IsHealthCheck(r) == req[r].method = "GET" /\ req[r].url = "/health"

\* C10: the upstream base URL never changes, GET /health never has an
\* outbound call, and its reply is the one 200 with status "ok", region "eu"
\* and the configured upstream base URL as target, whatever the key and secret.
C10_Health ==
    [][ /\ CLOB_TARGET' = CLOB_TARGET
        /\ \A r \in Requested :
              IsHealthCheck(r) =>
                 /\ outbound'[r] = <<>>
                 /\ upstream'[r] = "idle"
                 /\ pc'[r] = "done" =>
                       /\ Len(reply'[r]) = 1
                       /\ reply'[r][1].status = 200
                       /\ reply'[r][1].live = "ok"
                       /\ reply'[r][1].region = "eu"
                       /\ reply'[r][1].target = CLOB_TARGET
                       /\ reply'[r][1].error = Undefined ]_vars

\* GET /health with a wrong key was answered under a configured secret and a
\* target other than the default.
C10_Witness ==
    \E r \in Requested :
        /\ IsHealthCheck(r)
        /\ API_KEY # "" /\ Sent(r, "x-proxy-key") \notin {Undefined, API_KEY}
        /\ CLOB_TARGET = "http://localhost:8080"
        /\ pc[r] = "done"
        /\ reply[r] = <<HealthReply(CLOB_TARGET)>>

====
